---- MODULE Spec2Model ----
(***************************************************************************)
(* Model of src/app.py: a Streamlit form that reads rate tables from an    *)
(* uploaded workbook, prices a 3D-print job and exports the result as PDF, *)
(* PNG and an updated workbook.                                            *)
(*                                                                         *)
(* Numbers.  The program computes in binary floating point; the model      *)
(* computes the same expressions exactly, in fixed point:                  *)
(*   - money is an integer number of 1/Scale shekels (Scale = 18000 is a   *)
(*     common multiple of the two divisors of the code, 1000 grams per kg  *)
(*     and 3600 seconds per hour);                                         *)
(*   - a duration in hours is an integer number of seconds (hours * 3600); *)
(*   - a discount factor is an integer number of twentieths (1.0 is 20,    *)
(*     0.9 is 18, 0.8 is 16, 0.75 is 15).                                  *)
(* Strings.  The Hebrew dictionary keys and labels of the source are       *)
(* written in ASCII: "modeling" for the labor key of line 114, "printing"  *)
(* (115), "assembly" (116), "magnets" (126), "led_single" (127),           *)
(* "led_desk" (128), "material" / "grams" for the two keys of a material   *)
(* line (103, 104).                                                        *)
(***************************************************************************)
EXTENDS Integers, Sequences, FiniteSets, TLC

VARIABLES pc, wb, rates, defaults, inputs, result, pdf, img, orig, err, call, ret

vars == <<pc, wb, rates, defaults, inputs, result, pdf, img, orig, err, call, ret>>

-----------------------------------------------------------------------------
(* Units *)

GramsPerKg == 1000
SecondsPerHour == 3600
Hundred == 10 * 10
Twentieths == 4 * 5
Tenths == 2 * 5
Scale == 5 * SecondsPerHour

(* The value of a variable that the run has not set yet. *)
Idle == [t |-> "idle"]

(* Python's None, and the values a workbook cell can hold. *)
None == [t |-> "none"]
Num(n) == [t |-> "num", n |-> n]
Str(s) == [t |-> "str", s |-> s]
Tm(h, m, s) == [t |-> "time", hour |-> h, minute |-> m, second |-> s]

(* Python truth value of a cell value, as used by `x or default`:          *)
(* None, 0, 0.0 and "" are false; a datetime.time is always true.          *)
Truthy(v) ==
    CASE v.t = "none" -> FALSE
      [] v.t = "num"  -> v.n # 0
      [] v.t = "str"  -> v.s # ""
      [] OTHER        -> TRUE

(* round(): a / b rounded to the nearest integer, ties to the even one. *)
RoundHalfEven(a, b) ==
    LET q == a \div b
        r == a % b
    IN  IF 2 * r < b THEN q
        ELSE IF 2 * r > b THEN q + 1
        ELSE IF q % 2 = 0 THEN q ELSE q + 1

-----------------------------------------------------------------------------
(* Helpers *)

(* hours, in seconds *)
time_to_hours(t) ==
    IF t = None THEN 0
    ELSE t.hour * SecondsPerHour + t.minute * (SecondsPerHour \div 60) + t.second

(* mround with ties rounded up (a seeded fault) *)
mround_half_up(value, multiple) ==
    IF multiple = 0 THEN value
    ELSE ((2 * value + multiple) \div (2 * multiple)) * multiple

mround(value, multiple) ==
    IF multiple = 0 THEN value
    ELSE RoundHalfEven(value, multiple) * multiple

(* discount_factor with the tier boundary 30 moved by one (a seeded fault) *)
discount_factor_off_by_one(qty) ==
    IF 1 < qty /\ qty < 30 THEN 18
    ELSE IF 30 <= qty /\ qty <= 100 THEN 16
    ELSE IF qty > 100 THEN 15
    ELSE Twentieths

(* discount factor, in twentieths *)
discount_factor(qty) ==
    IF 1 < qty /\ qty <= 30 THEN 18
    ELSE IF 30 < qty /\ qty <= 100 THEN 16
    ELSE IF qty > 100 THEN 15
    ELSE Twentieths

(* dict.get with a default of 1 (a seeded fault) *)
Get_or_one(d, key) == IF key \in DOMAIN d THEN d[key] ELSE 1

(* dict.get(key, 0.0) *)
Get(d, key) == IF key \in DOMAIN d THEN d[key] ELSE 0

(* "{n:.2f}" of a non-negative number n = a / b *)
Pad2(k) == IF k < 10 THEN "0" \o ToString(k) ELSE ToString(k)
Fixed2(a, b) ==
    LET c == RoundHalfEven(a * Hundred, b)
    IN  ToString(c \div Hundred) \o "." \o Pad2(c % Hundred)

RECURSIVE SumCost(_)
SumCost(rows) ==
    IF rows = <<>> THEN 0 ELSE rows[1].cost + SumCost(Tail(rows))

-----------------------------------------------------------------------------
(* compute: Inputs and three rate tables to the result dictionary.         *)
(* Rates are whole shekels per kg, per hour and per piece; grams and       *)
(* quantities are integers, for which float(x or 0) and int(x or 0) are x; *)
(* every cost is in 1/Scale shekels.                                       *)

(* str(): the text of a value inside an f-string *)
StrOf(v) ==
    CASE v.t = "str" -> v.s
      [] v.t = "num" -> ToString(v.n)
      [] OTHER       -> "None"

(* per_g.get(mat, 0.0): the keys of a rate table are strings, so None     *)
(* (the selection of an empty select box) is never found.                 *)
Lookup(d, v) == IF v.t = "str" THEN Get(d, v.s) ELSE 0

MaterialRow(per_g, i, line) ==
    [section |-> "material " \o ToString(i),
     detail  |-> StrOf(line.material) \o " - " \o ToString(line.grams) \o " grams",
     cost    |-> Lookup(per_g, line.material) * line.grams]

LaborRow(work_per_h, key, hours) ==
    [section |-> "labor",
     detail  |-> key \o " - " \o Fixed2(hours, SecondsPerHour) \o " hours",
     cost    |-> Get(work_per_h, key) * hours * (Scale \div SecondsPerHour)]

AddonRow(addons_price, key, label, qty) ==
    [section |-> "addons",
     detail  |-> label \o " - " \o ToString(qty) \o " units",
     cost    |-> Get(addons_price, key) * qty * Scale]

(* the total with the modeling cost scaled like the unit price (a seeded   *)
(* fault)                                                                  *)
TotalScaled(modeling_cost, unit_price, qty, disc) ==
    mround((modeling_cost + unit_price) * qty * disc,
           5 * Scale * Twentieths) \div Twentieths

(* line 142, the sum in 1/(Scale * Twentieths) shekels *)
Total(modeling_cost, unit_price, qty, disc) ==
    mround(modeling_cost * Twentieths + unit_price * qty * disc,
           5 * Scale * Twentieths) \div Twentieths

(* line 139 with the operands of the subtraction swapped (a seeded fault) *)
UnitPriceSwapped(cost_sum_all, modeling_cost) == modeling_cost - cost_sum_all

UnitPrice(cost_sum_all, modeling_cost) == cost_sum_all - modeling_cost

compute(in, materials_per_kg, work_per_h, addons_price) ==
    LET per_g == [k \in DOMAIN materials_per_kg |->
                     materials_per_kg[k] * (Scale \div GramsPerKg)]
        materials_rows == [i \in 1..Len(in.material_lines) |->
                              MaterialRow(per_g, i, in.material_lines[i])]
        mat_total == SumCost(materials_rows)
        modeling_h == time_to_hours(in.modeling_time)
        printing_h == time_to_hours(in.printing_time)
        assembly_h == time_to_hours(in.assembly_time)
        labor_rows == << LaborRow(work_per_h, "modeling", modeling_h),
                         LaborRow(work_per_h, "printing", printing_h),
                         LaborRow(work_per_h, "assembly", assembly_h) >>
        modeling_cost == labor_rows[1].cost
        labor_total == SumCost(labor_rows)
        addon_rows == << AddonRow(addons_price, "magnets", "magnets", in.magnets_qty),
                         AddonRow(addons_price, "led_single", "led single", in.led_single_qty),
                         AddonRow(addons_price, "led_desk", "led desk", in.led_desk_qty) >>
        addons_total == SumCost(addon_rows)
        cost_sum_all == mat_total + labor_total + addons_total
        unit_price_excl_modeling == UnitPrice(cost_sum_all, modeling_cost)
        qty == in.units_qty
        disc == discount_factor(qty)
    IN  [breakdown_df    |-> materials_rows \o labor_rows \o addon_rows,
         materials_total |-> mat_total,
         labor_total     |-> labor_total,
         addons_total    |-> addons_total,
         modeling_cost   |-> modeling_cost,
         unit_price      |-> unit_price_excl_modeling,
         qty             |-> qty,
         discount        |-> disc,
         total           |-> Total(modeling_cost, unit_price_excl_modeling, qty, disc),
         project         |-> in.project_name]

-----------------------------------------------------------------------------
(* The workbook.  A cell is <<sheet, row, column>>; sheet 1 is the active  *)
(* sheet, columns C, D, H, I, J are 3, 4, 8, 9, 10.  A workbook maps every *)
(* cell of Cells to its value, None for a blank or absent cell.  Saving    *)
(* and loading (openpyxl) keep the value of every cell.                    *)

Cell(r, c) == <<1, r, c>>

MaterialRateRows == <<6, 7, 8, 9>>
WorkRateRows == <<13, 14, 15>>
AddonRateRows == <<18, 19, 20>>

Range(seq) == {seq[i] : i \in DOMAIN seq}

RateCells ==
    {Cell(r, c) : r \in Range(MaterialRateRows) \cup Range(WorkRateRows)
                         \cup Range(AddonRateRows),
                  c \in {3, 4}}

Cells ==
    RateCells
    \cup {Cell(5, 8)}
    \cup {Cell(r, c) : r \in 7..10, c \in {8, 9}}
    \cup {Cell(r, 9) : r \in 11..16}
    \cup {Cell(r, 10) : r \in 18..24}
    \cup {Cell(1, 1), Cell(10, 4), <<2, 7, 8>>, <<2, 11, 9>>}

(* float(price or 0.0) raises for a cell that holds text or a time *)
PriceFails(v) == Truthy(v) /\ v.t # "num"
Price(v) == IF Truthy(v) THEN v.n ELSE 0

RECURSIVE ReadTable(_, _)
ReadTable(ws, rows) ==
    IF rows = <<>> THEN [k \in {} |-> 0]
    ELSE LET r     == rows[Len(rows)]
             rest  == ReadTable(ws, SubSeq(rows, 1, Len(rows) - 1))
             name  == ws[Cell(r, 3)]
         IN  IF Truthy(name)
             THEN (StrOf(name) :> Price(ws[Cell(r, 4)])) @@ rest
             ELSE rest

(* list(d.keys()): the names in the order of their first row *)
RECURSIVE KeyList(_, _)
KeyList(ws, rows) ==
    IF rows = <<>> THEN <<>>
    ELSE LET r     == rows[Len(rows)]
             rest  == KeyList(ws, SubSeq(rows, 1, Len(rows) - 1))
             name  == ws[Cell(r, 3)]
         IN  IF Truthy(name) /\ StrOf(name) \notin Range(rest)
             THEN Append(rest, StrOf(name))
             ELSE rest

ReadFails(ws, rows) ==
    \E i \in DOMAIN rows :
        Truthy(ws[Cell(rows[i], 3)]) /\ PriceFails(ws[Cell(rows[i], 4)])

read_rates_fails(ws) ==
    ReadFails(ws, MaterialRateRows) \/ ReadFails(ws, WorkRateRows)
        \/ ReadFails(ws, AddonRateRows)

read_rates_from_sheet(ws) ==
    [materials      |-> ReadTable(ws, MaterialRateRows),
     material_names |-> KeyList(ws, MaterialRateRows),
     work           |-> ReadTable(ws, WorkRateRows),
     addons         |-> ReadTable(ws, AddonRateRows)]

(* Lines 326-340: the defaults of the form, read from the workbook.        *)
Or(v, default) == IF Truthy(v) THEN v ELSE default
IntOr(v, default) == IF Truthy(v) THEN v.n ELSE default

DefaultsFail(ws, names) ==
    \E r \in 7..9 : ~Truthy(ws[Cell(r, 8)]) /\ names = <<>>

DefaultMaterial(v, names) == IF Truthy(v) THEN v ELSE Str(names[1])

DefaultsOf(ws, names) ==
    [project    |-> Or(ws[Cell(5, 8)], Str("project")),
     lines      |-> [i \in 1..3 |->
                        [material |-> DefaultMaterial(ws[Cell(6 + i, 8)], names),
                         grams    |-> IntOr(ws[Cell(6 + i, 9)], 0)]],
     model_time |-> Or(ws[Cell(11, 9)], Tm(1, 0, 0)),
     print_time |-> Or(ws[Cell(12, 9)], Tm(2, 40, 0)),
     assy_time  |-> Or(ws[Cell(13, 9)], Tm(0, 30, 0)),
     magnets    |-> IntOr(ws[Cell(14, 9)], 0),
     led_single |-> IntOr(ws[Cell(15, 9)], 0),
     led_desk   |-> IntOr(ws[Cell(16, 9)], 0),
     units      |-> IntOr(ws[Cell(21, 10)], 1)]

-----------------------------------------------------------------------------
(* The form (lines 342-389).  Streamlit's widgets return the value the     *)
(* user set, initially the default; a select box over no options returns   *)
(* None.  The user edits are drawn from small sets.                        *)

ProjectEdits == {"", "vase"}
GramsEdits == {0, 25}
TimeEdits == { <<Tm(0, 0, 0), Tm(0, 20, 0), Tm(0, 10, 30)>> }
AddonEdits == { <<2, 1, 1>> }
UnitEdits == {0, 2, 31}

IndexOf(names, s) == CHOOSE i \in DOMAIN names : names[i] = s

(* index=material_names.index(default) if default in material_names else 0 *)
SelectIndex(names, default) ==
    IF default.t = "str" /\ default.s \in Range(names)
    THEN IndexOf(names, default.s) ELSE 1

Selectbox(names, index) == IF names = <<>> THEN None ELSE Str(names[index])

-----------------------------------------------------------------------------
(* Exporters *)

Pad3(k) == IF k < 10 THEN "00" \o ToString(k)
           ELSE IF k < 100 THEN "0" \o ToString(k) ELSE ToString(k)

(* "{v:,}" of a non-negative integer *)
RECURSIVE Grouped(_)
Grouped(v) ==
    IF v < 1000 THEN ToString(v)
    ELSE Grouped(v \div 1000) \o "," \o Pad3(v % 1000)

(* f"{n:,.0f}" and f"{n:,.2f}" for a non-negative amount n *)
currency(n) == Grouped(RoundHalfEven(n, Scale)) \o " NIS"

currency2(n) ==
    LET c == RoundHalfEven(n * Hundred, Scale)
    IN  Grouped(c \div Hundred) \o "." \o Pad2(c % Hundred) \o " NIS"

(* int((1 - discount) * 100) in binary floating point: 1 - 0.9 and 1 - 0.8 *)
(* fall just below 0.1 and 0.2, and int() truncates.                       *)
DiscountPercent(disc) ==
    CASE disc = Twentieths -> 0
      [] disc = 18 -> 9
      [] disc = 16 -> 19
      [] OTHER -> 25

Min(a, b) == IF a < b THEN a ELSE b

(* detail[:80] *)
Truncated(detail) == SubSeq(detail, 1, Min(80, Len(detail)))

render_pdf(res) ==
    [project    |-> res.project,
     unit_price |-> currency(res.unit_price),
     qty        |-> ToString(res.qty),
     discount   |-> ToString(DiscountPercent(res.discount)) \o "%",
     total      |-> currency(res.total),
     rows       |-> [i \in 1..Len(res.breakdown_df) |->
                        [cost   |-> currency2(res.breakdown_df[i].cost),
                         detail |-> Truncated(res.breakdown_df[i].detail)]]]

ImgH == 800
ImgRowsTop == 50 + 70 + 40 + 40 + 60 + 40
ImgRowStep == 30

(* the loop of lines 250-257: draw a row, step down, stop below H - 40 *)
RECURSIVE ImageRows(_, _)
ImageRows(rows, y) ==
    IF rows = <<>> THEN <<>>
    ELSE LET drawn == [cost   |-> currency2(rows[1].cost),
                       detail |-> rows[1].detail]
         IN  IF y + ImgRowStep > ImgH - 40 THEN <<drawn>>
             ELSE <<drawn>> \o ImageRows(Tail(rows), y + ImgRowStep)

render_image(res) ==
    [project    |-> res.project,
     unit_price |-> currency(res.unit_price),
     qty        |-> ToString(res.qty),
     discount   |-> ToString(DiscountPercent(res.discount)) \o "%",
     total      |-> currency(res.total),
     rows       |-> ImageRows(res.breakdown_df, ImgRowsTop)]

(* lines 270-273 with the grams written to column D (a seeded fault) *)
LineWritesWrongColumn(in) ==
    [c \in {Cell(6 + i, col) : i \in 1..Len(in.material_lines), col \in {8, 4}} |->
        IF c[3] = 8 THEN in.material_lines[c[2] - 6].material
        ELSE Num(in.material_lines[c[2] - 6].grams)]

(* lines 270-273 *)
LineWrites(in) ==
    [c \in {Cell(6 + i, col) : i \in 1..Len(in.material_lines), col \in {8, 9}} |->
        IF c[3] = 8 THEN in.material_lines[c[2] - 6].material
        ELSE Num(in.material_lines[c[2] - 6].grams)]

(* lines 281-283 with two of the cells swapped (a seeded fault) *)
AddonWritesSwapped(in) ==
    (Cell(14, 9) :> Num(in.led_single_qty))
        @@ (Cell(15, 9) :> Num(in.magnets_qty))
        @@ (Cell(16, 9) :> Num(in.led_desk_qty))

(* lines 281-283 *)
AddonWrites(in) ==
    (Cell(14, 9) :> Num(in.magnets_qty))
        @@ (Cell(15, 9) :> Num(in.led_single_qty))
        @@ (Cell(16, 9) :> Num(in.led_desk_qty))

(* the cells write_back_to_xlsx assigns; a later assignment to the same    *)
(* cell wins                                                               *)
write_back_to_xlsx(ws, in, res) ==
    LET outputs == (Cell(18, 10) :> Num(res.modeling_cost))
                     @@ (Cell(20, 10) :> Num(res.unit_price))
                     @@ (Cell(22, 10) :> Num(res.discount))
                     @@ (Cell(24, 10) :> Num(res.total))
        units   == (Cell(21, 10) :> Num(in.units_qty))
        times   == (Cell(11, 9) :> in.modeling_time)
                     @@ (Cell(12, 9) :> in.printing_time)
                     @@ (Cell(13, 9) :> in.assembly_time)
        project == (Cell(5, 8) :> Str(in.project_name))
        written == outputs @@ units @@ AddonWrites(in) @@ times
                     @@ LineWrites(in) @@ project
    IN  [c \in DOMAIN ws |-> IF c \in DOMAIN written THEN written[c] ELSE ws[c]]

-----------------------------------------------------------------------------
(* The uploaded workbooks: a blank sheet plus one block of each kind.  The *)
(* numbers of a template are non-negative and its cells hold the type the *)
(* script expects, but for one price cell that holds text.                *)

LongName == "Polyethylene terephthalate glycol, carbon fibre reinforced, matte black, 1.75 mm"

Blank == [c \in Cells |-> None]

Fixed ==
    (Cell(1, 1) :> Str("Pricing")) @@ (Cell(10, 4) :> Num(7))
        @@ (Cell(19, 10) :> Str("=J18+J20")) @@ (Cell(23, 10) :> Num(5))
        @@ (<<2, 7, 8>> :> Str("notes")) @@ (<<2, 11, 9>> :> Num(42))

MaterialBlocks ==
    { Cell(1, 1) :> Str("Pricing"),
      (Cell(6, 3) :> Str("PLA")) @@ (Cell(6, 4) :> Num(100)),
      (Cell(6, 3) :> Str("PLA")) @@ (Cell(7, 3) :> Str(LongName))
          @@ (Cell(7, 4) :> Num(60)),
      (Cell(6, 3) :> Str("PLA")) @@ (Cell(6, 4) :> Str("n/a")) }

RateBlocks ==
    { (Cell(13, 3) :> Str("modeling")) @@ (Cell(13, 4) :> Num(60))
          @@ (Cell(14, 3) :> Str("printing")) @@ (Cell(14, 4) :> Num(12))
          @@ (Cell(15, 3) :> Str("assembly")) @@ (Cell(15, 4) :> Num(30))
          @@ (Cell(18, 3) :> Str("magnets")) @@ (Cell(18, 4) :> Num(1))
          @@ (Cell(19, 3) :> Str("led_single")) @@ (Cell(19, 4) :> Num(2))
          @@ (Cell(20, 3) :> Str("led_desk")) @@ (Cell(20, 4) :> Num(4)),
      (Cell(13, 4) :> Num(60))
          @@ (Cell(14, 3) :> Str("printing"))
          @@ (Cell(15, 3) :> Str("assembly")) @@ (Cell(15, 4) :> Num(30)) }

SelectionBlocks ==
    { Cell(1, 1) :> Str("Pricing"),
      (Cell(7, 8) :> Str("PLA")) @@ (Cell(8, 8) :> Str("PLA"))
          @@ (Cell(9, 8) :> Str(LongName)),
      (Cell(7, 8) :> Str("XYZ")) @@ (Cell(9, 8) :> Str("PLA")) }

AmountBlocks ==
    { Cell(1, 1) :> Str("Pricing"),
      (Cell(7, 9) :> Num(25)) @@ (Cell(8, 9) :> Num(0)) @@ (Cell(9, 9) :> Num(10))
          @@ (Cell(11, 9) :> Tm(1, 30, 0)) @@ (Cell(12, 9) :> Tm(0, 20, 0))
          @@ (Cell(13, 9) :> Tm(0, 0, 0))
          @@ (Cell(14, 9) :> Num(2)) @@ (Cell(16, 9) :> Num(1)) }

JobBlocks ==
    { Cell(1, 1) :> Str("Pricing"),
      (Cell(5, 8) :> Str("lamp")) @@ (Cell(21, 10) :> Num(3)),
      Cell(21, 10) :> Num(0) }

Templates ==
    { m @@ r @@ s @@ a @@ j @@ Fixed @@ Blank :
        m \in MaterialBlocks, r \in RateBlocks, s \in SelectionBlocks,
        a \in AmountBlocks, j \in JobBlocks }

-----------------------------------------------------------------------------
(* One run of the script (lines 316-412), then the written workbook        *)
(* uploaded again and its rates and defaults read (lines 322-340).         *)

Init ==
    /\ pc = "waiting"
    /\ wb = Idle /\ orig = Idle /\ rates = Idle /\ defaults = Idle
    /\ inputs = Idle /\ result = Idle /\ pdf = Idle /\ img = Idle
    /\ err = "none"
    /\ call = Idle /\ ret = Idle

fnvars == <<call, ret>>

(* lines 316-322 *)
Upload ==
    /\ pc = "waiting"
    /\ \E t \in Templates : wb' = t /\ orig' = t
    /\ pc' = "uploaded"
    /\ UNCHANGED <<rates, defaults, inputs, result, pdf, img, err, fnvars>>

(* line 323 *)
ReadRates ==
    /\ pc = "uploaded"
    /\ ~read_rates_fails(wb)
    /\ rates' = read_rates_from_sheet(wb)
    /\ pc' = "rates_read"
    /\ UNCHANGED <<wb, orig, defaults, inputs, result, pdf, img, err, fnvars>>

ReadRatesRaises ==
    /\ pc = "uploaded"
    /\ read_rates_fails(wb)
    /\ err' = "ValueError"
    /\ pc' = "failed"
    /\ UNCHANGED <<wb, orig, rates, defaults, inputs, result, pdf, img, fnvars>>

(* lines 326-340 *)
ReadDefaults ==
    /\ pc = "rates_read"
    /\ ~DefaultsFail(wb, rates.material_names)
    /\ defaults' = DefaultsOf(wb, rates.material_names)
    /\ pc' = "defaults_read"
    /\ UNCHANGED <<wb, orig, rates, inputs, result, pdf, img, err, fnvars>>

ReadDefaultsRaises ==
    /\ pc = "rates_read"
    /\ DefaultsFail(wb, rates.material_names)
    /\ err' = "IndexError"
    /\ pc' = "failed"
    /\ UNCHANGED <<wb, orig, rates, defaults, inputs, result, pdf, img, fnvars>>

(* lines 342-389 *)
Form ==
    /\ pc = "defaults_read"
    /\ LET names == rates.material_names
           d     == defaults
           index(i) == SelectIndex(names, d.lines[i].material)
       IN  \E p  \in {StrOf(d.project)} \cup ProjectEdits,
              k  \in (IF names = <<>> THEN {1} ELSE DOMAIN names),
              g  \in {d.lines[1].grams} \cup GramsEdits,
              tm \in {<<d.model_time, d.print_time, d.assy_time>>} \cup TimeEdits,
              ad \in {<<d.magnets, d.led_single, d.led_desk>>} \cup AddonEdits,
              q  \in {d.units} \cup UnitEdits :
             inputs' =
                 [project_name   |-> p,
                  material_lines |->
                      << [material |-> Selectbox(names, k), grams |-> g],
                         [material |-> Selectbox(names, index(2)),
                          grams    |-> d.lines[2].grams],
                         [material |-> Selectbox(names, index(3)),
                          grams    |-> d.lines[3].grams] >>,
                  modeling_time  |-> tm[1],
                  printing_time  |-> tm[2],
                  assembly_time  |-> tm[3],
                  magnets_qty    |-> ad[1],
                  led_single_qty |-> ad[2],
                  led_desk_qty   |-> ad[3],
                  units_qty      |-> q]
    /\ pc' = "form"
    /\ UNCHANGED <<wb, orig, rates, defaults, result, pdf, img, err, fnvars>>

(* line 391 *)
Compute ==
    /\ pc = "form"
    /\ result' = compute(inputs, rates.materials, rates.work, rates.addons)
    /\ pc' = "computed"
    /\ UNCHANGED <<wb, orig, rates, defaults, inputs, pdf, img, err, fnvars>>

(* line 410 *)
RenderPdf ==
    /\ pc = "computed"
    /\ pdf' = render_pdf(result)
    /\ pc' = "pdf"
    /\ UNCHANGED <<wb, orig, rates, defaults, inputs, result, img, err, fnvars>>

(* line 411 *)
RenderImage ==
    /\ pc = "pdf"
    /\ img' = render_image(result)
    /\ pc' = "image"
    /\ UNCHANGED <<wb, orig, rates, defaults, inputs, result, pdf, err, fnvars>>

(* line 412: the workbook of the session is written in place and saved *)
WriteBack ==
    /\ pc = "image"
    /\ wb' = write_back_to_xlsx(wb, inputs, result)
    /\ pc' = "exported"
    /\ UNCHANGED <<orig, rates, defaults, inputs, result, pdf, img, err, fnvars>>

(* the downloaded workbook uploaded again: lines 322-340 on it *)
Reload ==
    /\ pc = "exported"
    /\ ~read_rates_fails(wb)
    /\ ~DefaultsFail(wb, read_rates_from_sheet(wb).material_names)
    /\ rates' = read_rates_from_sheet(wb)
    /\ defaults' = DefaultsOf(wb, rates'.material_names)
    /\ pc' = "reloaded"
    /\ UNCHANGED <<wb, orig, inputs, result, pdf, img, err, fnvars>>

ReloadRaises ==
    /\ pc = "exported"
    /\ IF read_rates_fails(wb)
       THEN err' = "ValueError" /\ rates' = rates
       ELSE /\ DefaultsFail(wb, read_rates_from_sheet(wb).material_names)
            /\ err' = "IndexError"
            /\ rates' = read_rates_from_sheet(wb)
    /\ pc' = "reload_failed"
    /\ UNCHANGED <<wb, orig, defaults, inputs, result, pdf, img, fnvars>>

Next ==
    \/ Upload
    \/ ReadRates
    \/ ReadRatesRaises
    \/ ReadDefaults
    \/ ReadDefaultsRaises
    \/ Form
    \/ Compute
    \/ RenderPdf
    \/ RenderImage
    \/ WriteBack
    \/ Reload
    \/ ReloadRaises

Spec == Init /\ [][Next]_vars

-----------------------------------------------------------------------------
(* The pure functions applied to bounded inputs.  The values of a call of  *)
(* mround are in tenths.                                                   *)

MaxLines == 2
MaxQty == 105
NegQty == 3
MroundMax == 200

QtyValues == {-1, 0, 1, 2, 30, 31, 100, 101, 150}

FnLine == { [material |-> Str("PLA"), grams |-> 25],
            [material |-> Str("PETG"), grams |-> 25],
            [material |-> Str("PLA"), grams |-> -10],
            [material |-> Str("PETG"), grams |-> 0] }
FnLines == UNION {[1..n -> FnLine] : n \in 0..MaxLines}
FnTimes == { <<Tm(0, 0, 0), Tm(0, 20, 0), Tm(0, 0, 0)>>,
             <<Tm(1, 30, 0), Tm(0, 20, 0), Tm(0, 10, 30)>>,
             <<Tm(1, 0, 0), Tm(0, 0, 0), Tm(0, 30, 0)>> }
FnAddons == { <<0, 0, 0>>, <<2, 1, 1>>, <<-1, 0, 0>> }

FnInputs ==
    { [project_name   |-> "job",
       material_lines |-> ls,
       modeling_time  |-> tm[1],
       printing_time  |-> tm[2],
       assembly_time  |-> tm[3],
       magnets_qty    |-> ad[1],
       led_single_qty |-> ad[2],
       led_desk_qty   |-> ad[3],
       units_qty      |-> q] :
      ls \in FnLines, tm \in FnTimes, ad \in FnAddons, q \in QtyValues }

EmptyTable == [k \in {} |-> 0]
FnMaterialTables == { [k \in {"PLA", "PETG"} |-> IF k = "PLA" THEN 100 ELSE 60],
                      [k \in {"PLA"} |-> 100],
                      EmptyTable }
FnWorkTables == { [k \in {"modeling", "printing", "assembly"} |->
                      IF k = "modeling" THEN 60 ELSE IF k = "printing" THEN 12 ELSE 30],
                  [k \in {"printing"} |-> 12] }
FnAddonTables == { [k \in {"magnets", "led_single", "led_desk"} |->
                       IF k = "magnets" THEN 1 ELSE IF k = "led_single" THEN 2 ELSE 4],
                   [k \in {"magnets"} |-> 1] }

FnCalls ==
    { [fn |-> "discount_factor", qty |-> q] : q \in (0 - NegQty)..MaxQty }
    \cup { [fn |-> "mround", value |-> x, multiple |-> m] :
               x \in (0 - MroundMax)..MroundMax, m \in {0, 5 * Tenths} }
    \cup { [fn |-> "compute", inputs |-> i, materials_per_kg |-> mt,
             work_per_h |-> wt, addons_price |-> at] :
               i \in FnInputs, mt \in FnMaterialTables,
               wt \in FnWorkTables, at \in FnAddonTables }

FnInit ==
    /\ pc = "call"
    /\ call \in FnCalls
    /\ ret = None
    /\ wb = Idle /\ rates = Idle /\ defaults = Idle /\ inputs = Idle
    /\ result = Idle /\ pdf = Idle /\ img = Idle /\ orig = Idle /\ err = "none"

script == <<wb, rates, defaults, inputs, result, pdf, img, orig, err>>

CallDiscountFactor ==
    /\ pc = "call" /\ call.fn = "discount_factor"
    /\ ret' = discount_factor(call.qty)
    /\ pc' = "returned"
    /\ UNCHANGED <<call, script>>

CallMround ==
    /\ pc = "call" /\ call.fn = "mround"
    /\ ret' = mround(call.value, call.multiple)
    /\ pc' = "returned"
    /\ UNCHANGED <<call, script>>

CallCompute ==
    /\ pc = "call" /\ call.fn = "compute"
    /\ ret' = compute(call.inputs, call.materials_per_kg, call.work_per_h,
                      call.addons_price)
    /\ pc' = "returned"
    /\ UNCHANGED <<call, script>>

FnNext == CallDiscountFactor \/ CallMround \/ CallCompute

SpecFn == FnInit /\ [][FnNext]_vars

-----------------------------------------------------------------------------
(* Claims about the pure functions, under SpecFn.                          *)

Returned(fn) == pc = "returned" /\ call.fn = fn

IsResult(r) == "total" \in DOMAIN r

Abs(x) == IF x < 0 THEN 0 - x ELSE x

(* C1: discount_factor(qty) is 1.0 for qty <= 1 (zero and negative         *)
(* included), 0.9 for 2..30, 0.8 for 31..100, 0.75 above 100, and nothing  *)
(* else is ever returned.                                                  *)
C1_DiscountTiers ==
    Returned("discount_factor") =>
        LET q == call.qty
        IN  /\ (q <= 1) => ret = Twentieths
            /\ (2 <= q /\ q <= 30) => ret = 18
            /\ (31 <= q /\ q <= 100) => ret = 16
            /\ (q > 100) => ret = 15
            /\ ret \in {Twentieths, 18, 16, 15}

C1_Witness ==
    /\ Returned("discount_factor")
    /\ call.qty = 31
    /\ ret = 16

(* C2: in every result of compute, unit_price = materials_total +          *)
(* labor_total + addons_total - modeling_cost and total =                  *)
(* mround(modeling_cost + unit_price * qty * discount_factor(qty), 5);     *)
(* the modeling cost enters once, unscaled, so with units_qty = 0 the      *)
(* total is mround(modeling_cost, 5).                                      *)
C2_PriceIdentity ==
    Returned("compute") =>
        /\ ret.unit_price = ret.materials_total + ret.labor_total
                              + ret.addons_total - ret.modeling_cost
        /\ ret.modeling_cost = Get(call.work_per_h, "modeling")
                                 * time_to_hours(call.inputs.modeling_time)
                                 * (Scale \div SecondsPerHour)
        /\ ret.qty = call.inputs.units_qty
        /\ ret.total * Twentieths =
               mround(ret.modeling_cost * Twentieths
                        + ret.unit_price * ret.qty * discount_factor(ret.qty),
                      5 * Scale * Twentieths)
        /\ (ret.qty = 0) => ret.total = mround(ret.modeling_cost, 5 * Scale)

C2_Witness ==
    /\ Returned("compute")
    /\ ret.qty = 0
    /\ ret.modeling_cost = 90 * Scale
    /\ ret.unit_price > 0
    /\ ret.total = 90 * Scale

(* C3: compute rejects a negative grams, add-on quantity or unit quantity  *)
(* with a domain error: for no such input does it return a Result.         *)
HasNegative(in) ==
    \/ \E i \in 1..Len(in.material_lines) : in.material_lines[i].grams < 0
    \/ in.magnets_qty < 0 \/ in.led_single_qty < 0 \/ in.led_desk_qty < 0
    \/ in.units_qty < 0

C3_NegativeRejected ==
    (Returned("compute") /\ HasNegative(call.inputs)) => ~IsResult(ret)

(* C4: a material name, labor key or add-on key that is absent from its    *)
(* rate table gives a row of cost exactly 0; compute still returns a       *)
(* Result and every other row costs its rate times its amount.             *)
RateTimes(table, key, amount) ==
    IF key \in DOMAIN table THEN table[key] * amount ELSE 0

C4_UnknownKeyCostsZero ==
    Returned("compute") =>
        LET in == call.inputs
            n  == Len(in.material_lines)
            df == ret.breakdown_df
        IN  /\ IsResult(ret)
            /\ Len(df) = n + 6
            /\ \A i \in 1..n :
                   df[i].cost = RateTimes(call.materials_per_kg,
                                          in.material_lines[i].material.s,
                                          in.material_lines[i].grams * (Scale \div GramsPerKg))
            /\ df[n + 1].cost = RateTimes(call.work_per_h, "modeling",
                                   time_to_hours(in.modeling_time) * (Scale \div SecondsPerHour))
            /\ df[n + 2].cost = RateTimes(call.work_per_h, "printing",
                                   time_to_hours(in.printing_time) * (Scale \div SecondsPerHour))
            /\ df[n + 3].cost = RateTimes(call.work_per_h, "assembly",
                                   time_to_hours(in.assembly_time) * (Scale \div SecondsPerHour))
            /\ df[n + 4].cost = RateTimes(call.addons_price, "magnets", in.magnets_qty * Scale)
            /\ df[n + 5].cost = RateTimes(call.addons_price, "led_single", in.led_single_qty * Scale)
            /\ df[n + 6].cost = RateTimes(call.addons_price, "led_desk", in.led_desk_qty * Scale)

C4_Witness ==
    /\ Returned("compute")
    /\ Len(call.inputs.material_lines) = 2
    /\ call.inputs.material_lines[1] = [material |-> Str("PETG"), grams |-> 25]
    /\ call.inputs.material_lines[2] = [material |-> Str("PLA"), grams |-> 25]
    /\ "PETG" \notin DOMAIN call.materials_per_kg
    /\ "modeling" \notin DOMAIN call.work_per_h
    /\ "led_single" \notin DOMAIN call.addons_price
    /\ call.inputs.modeling_time = Tm(1, 30, 0)
    /\ call.inputs.led_single_qty = 1
    /\ ret.breakdown_df[1].cost = 0
    /\ ret.breakdown_df[2].cost > 0
    /\ ret.breakdown_df[3].cost = 0
    /\ ret.breakdown_df[4].cost > 0
    /\ ret.breakdown_df[6].cost > 0
    /\ ret.breakdown_df[7].cost = 0

(* C8: mround(x, 5) is a multiple of 5 at distance at most 2.5 from x, a   *)
(* tie going to the even multiple of 5 (mround(2.5, 5) = 0,                *)
(* mround(7.5, 5) = 10; mround(7, 5) = 5, mround(8, 5) = 10); the total of *)
(* every Result is a multiple of 5 within 2.5 of the unrounded price.      *)
(* Values of the mround calls are in tenths.                               *)
C8_MroundNearestEven ==
    /\ (Returned("mround") /\ call.multiple = 5 * Tenths) =>
           LET x == call.value
               m == call.multiple
           IN  /\ ret % m = 0
               /\ 2 * Abs(ret - x) <= m
               /\ (2 * (x % m) = m) => (ret \div m) % 2 = 0
               /\ (x = 7 * Tenths) => ret = 5 * Tenths
               /\ (x = 8 * Tenths) => ret = 10 * Tenths
               /\ (2 * x = 5 * Tenths) => ret = 0
               /\ (2 * x = 15 * Tenths) => ret = 10 * Tenths
    /\ Returned("compute") =>
           LET raw == ret.modeling_cost * Twentieths
                        + ret.unit_price * ret.qty * ret.discount
           IN  /\ ret.total % (5 * Scale) = 0
               /\ 2 * Abs(ret.total * Twentieths - raw) <= 5 * Scale * Twentieths
               /\ (2 * (raw % (5 * Scale * Twentieths)) = 5 * Scale * Twentieths)
                      => (ret.total \div (5 * Scale)) % 2 = 0

C8_Witness ==
    /\ Returned("mround")
    /\ 2 * call.value = 15 * Tenths
    /\ call.multiple = 5 * Tenths
    /\ ret = 10 * Tenths

(* C9: with rates and the other inputs fixed and non-negative, the total   *)
(* is non-decreasing in units_qty, for every pair q1 <= q2.                *)
NonNegative(c) ==
    /\ ~HasNegative([c.inputs EXCEPT !.units_qty = 0])
    /\ \A k \in DOMAIN c.materials_per_kg : c.materials_per_kg[k] >= 0
    /\ \A k \in DOMAIN c.work_per_h : c.work_per_h[k] >= 0
    /\ \A k \in DOMAIN c.addons_price : c.addons_price[k] >= 0

TotalFor(c, q) ==
    compute([c.inputs EXCEPT !.units_qty = q], c.materials_per_kg,
            c.work_per_h, c.addons_price).total

C9_TotalMonotone ==
    (Returned("compute") /\ NonNegative(call)) =>
        \A q2 \in QtyValues :
            call.inputs.units_qty <= q2 => ret.total <= TotalFor(call, q2)

(* C9 as amended: the total is non-decreasing in units_qty for every pair  *)
(* q1 <= q2 that crosses neither the 30/31 nor the 100/101 boundary (both  *)
(* at most 30, both in 31..100, or both above 100).                        *)
SameSide(q1, q2) ==
    \/ q1 <= 30 /\ q2 <= 30
    \/ 30 < q1 /\ q1 <= 100 /\ 30 < q2 /\ q2 <= 100
    \/ q1 > 100 /\ q2 > 100

C9_TotalMonotoneWithinTier ==
    (Returned("compute") /\ NonNegative(call)) =>
        \A q2 \in QtyValues :
            (call.inputs.units_qty <= q2 /\ SameSide(call.inputs.units_qty, q2))
                => ret.total <= TotalFor(call, q2)

C9_Witness ==
    /\ Returned("compute")
    /\ NonNegative(call)
    /\ call.inputs.units_qty = 31
    /\ ret.unit_price > 0
    /\ ret.total < TotalFor(call, 100)
    /\ ret.total < TotalFor(call, 30)

-----------------------------------------------------------------------------
(* Claims about the run of the script, under Spec.                         *)

Written == pc \in {"exported", "reloaded", "reload_failed"}

(* the cells write_back_to_xlsx is to change: H5, H(7+i) and I(7+i) for    *)
(* each material line index i, I11 to I16, J21, J18, J20, J22, J24         *)
Designated(in) ==
    {Cell(5, 8)}
    \cup {Cell(6 + i, c) : i \in 1..Len(in.material_lines), c \in {8, 9}}
    \cup {Cell(r, 9) : r \in 11..16}
    \cup {Cell(r, 10) : r \in {18, 20, 21, 22, 24}}

(* C5: write_back_to_xlsx changes only the designated cells of the active  *)
(* sheet and leaves every other cell of the workbook as it was; the rate   *)
(* cells (columns C and D of rows 6-9, 13-15, 18-20) keep their values, so *)
(* the rates read from the written workbook are the rates read before.     *)
C5_WriteBackFrame ==
    Written =>
        /\ DOMAIN wb = DOMAIN orig
        /\ \A c \in DOMAIN wb : c \notin Designated(inputs) => wb[c] = orig[c]
        /\ \A c \in RateCells : wb[c] = orig[c]
        /\ read_rates_from_sheet(wb) = read_rates_from_sheet(orig)
        /\ (pc \in {"reloaded", "reload_failed"})
              => rates = read_rates_from_sheet(orig)

C5_Witness ==
    /\ pc = "reloaded"
    /\ wb # orig
    /\ wb[Cell(7, 9)] = Num(25) /\ orig[Cell(7, 9)] = None
    /\ wb[Cell(24, 10)] # orig[Cell(24, 10)]
    /\ orig[Cell(6, 4)] = Num(100)
    /\ orig[<<2, 7, 8>>] = Str("notes")
    /\ rates.materials["PLA"] = 100

(* C6: a workbook whose expected cells are absent or blank never makes the *)
(* run fail: rows without a name are skipped, a blank price is 0.0, and    *)
(* the start-up (load, read rates, read defaults, form, compute) ends with *)
(* a Result, also when the material names of rows 6-9 are all empty and    *)
(* H7 to H9 are blank.                                                     *)
BlankOrValid(ws) ==
    /\ \A c \in RateCells : c[3] = 4 => ws[c].t \in {"none", "num"}
    /\ \A c \in RateCells : c[3] = 3 => ws[c].t \in {"none", "str"}

C6_StartupNeverFails ==
    (pc # "waiting" /\ BlankOrValid(orig)) => pc # "failed"

(* C7: each exporter emits every breakdown row of the Result (its detail   *)
(* and its cost) and the four headline numbers (modeling cost, unit price, *)
(* quantity, total), none omitted or truncated.                            *)
EmitsRows(out, res) ==
    /\ Len(out.rows) = Len(res.breakdown_df)
    /\ \A i \in 1..Len(res.breakdown_df) :
          /\ out.rows[i].detail = res.breakdown_df[i].detail
          /\ out.rows[i].cost = currency2(res.breakdown_df[i].cost)

EmitsHeadlines(out, res) ==
    /\ "modeling_cost" \in DOMAIN out
    /\ out.modeling_cost = currency(res.modeling_cost)
    /\ out.unit_price = currency(res.unit_price)
    /\ out.qty = ToString(res.qty)
    /\ out.total = currency(res.total)

(* the rows and headline numbers found in the cells of the written sheet *)
SheetRows(ws, res) ==
    \A i \in 1..Len(res.breakdown_df) :
        \E c \in DOMAIN ws : ws[c] = Num(res.breakdown_df[i].cost)

SheetHeadlines(ws, res) ==
    /\ ws[Cell(18, 10)] = Num(res.modeling_cost)
    /\ ws[Cell(20, 10)] = Num(res.unit_price)
    /\ ws[Cell(21, 10)] = Num(res.qty)
    /\ ws[Cell(24, 10)] = Num(res.total)

C7_ExportersFaithful ==
    /\ (pc \in {"pdf", "image", "exported"})
          => EmitsRows(pdf, result) /\ EmitsHeadlines(pdf, result)
    /\ (pc \in {"image", "exported"})
          => EmitsRows(img, result) /\ EmitsHeadlines(img, result)
    /\ (pc = "exported")
          => SheetRows(wb, result) /\ SheetHeadlines(wb, result)

(* C10: after write_back_to_xlsx has written an Inputs value with three    *)
(* material lines, the form defaults read from that workbook are exactly   *)
(* the Inputs written, for every Inputs value (units_qty = 0, zero grams,  *)
(* zero add-on quantities and an empty project name included).             *)
SameAsInputs(d, in) ==
    /\ StrOf(d.project) = in.project_name
    /\ \A i \in 1..3 :
          /\ d.lines[i].material = in.material_lines[i].material
          /\ d.lines[i].grams = in.material_lines[i].grams
    /\ d.model_time = in.modeling_time
    /\ d.print_time = in.printing_time
    /\ d.assy_time = in.assembly_time
    /\ d.magnets = in.magnets_qty
    /\ d.led_single = in.led_single_qty
    /\ d.led_desk = in.led_desk_qty
    /\ d.units = in.units_qty

C10_InputsRoundTrip ==
    (pc = "reloaded") => SameAsInputs(defaults, inputs)

(* C10 as amended: the defaults read from the written workbook are the     *)
(* Inputs written whenever the project name is not empty, units_qty is not *)
(* 0 and the three material names are strings (the materials table is not  *)
(* empty); units_qty = 0 is read back as 1, an empty project name as the   *)
(* placeholder name, everything else as written.                           *)
Named(in) == \A i \in 1..3 : in.material_lines[i].material.t = "str"

C10_InputsRoundTripExceptFalsy ==
    /\ (Written /\ Named(inputs)) => pc # "reload_failed"
    /\ (pc = "reloaded") =>
          LET d == defaults
              expected == [inputs EXCEPT
                              !.units_qty = IF @ = 0 THEN 1 ELSE @,
                              !.project_name = IF @ = "" THEN "project" ELSE @]
          IN  /\ SameAsInputs(d, expected)
              /\ (inputs.units_qty # 0 /\ inputs.project_name # "")
                    => SameAsInputs(d, inputs)

C10_Witness ==
    /\ pc = "reloaded"
    /\ inputs.units_qty = 31
    /\ inputs.project_name = "vase"
    /\ inputs.material_lines[1] = [material |-> Str(LongName), grams |-> 0]
    /\ inputs.magnets_qty = 0
    /\ inputs.modeling_time = Tm(0, 0, 0)
    /\ orig[Cell(21, 10)] = None
    /\ defaults.units = 31
    /\ SameAsInputs(defaults, inputs)

====
